---- MODULE Spec2Model ----
(***************************************************************************)
(* The SwitchCloud Terraform provider: the project and project member      *)
(* resources (Create / Read / Update / Delete / ImportState and            *)
(* ValidateConfig) running against the remote API.                         *)
(*                                                                         *)
(* Strings are sequences of tokens: "" is <<>>, "p1/m1" is                 *)
(* <<"p1", "/", "m1">>.  Concatenation is \o, strings.Split works on the   *)
(* token "/".  JSON objects are records whose domain is the set of fields  *)
(* present, so that omitempty and missing fields are visible.              *)
(***************************************************************************)
EXTENDS Integers, Sequences, FiniteSets, TLC

VARIABLES
    projects,        \* tests/main.go: var projects map[string]Project
    projectMembers,  \* tests/main.go: var projectMembers map[string]ProjectMember
    issued,          \* number of UUIDs faker.UUIDHyphenated has handed out
    pstate,          \* recorded state of each project resource instance
    mstate,          \* recorded state of each project member resource instance
    typeName,        \* resp.TypeName of the resource this run reconciles
    deleted,         \* identities of the members whose Delete was answered 204
    respState,       \* resp.State as the last call's handler left it
    diags,           \* resp.Diagnostics of the last call
    requests,        \* the HTTP requests the last call handed to client.Do
    sent,            \* those requests as the client's transport sent them
    provider,        \* the provider's configuration, environment and the client Configure built
    inflight,        \* per instance, the frame of a handler call waiting for its answer
    op               \* the last call: which handler, on which instance, its inputs

vars == <<projects, projectMembers, issued, typeName, pstate, mstate, deleted, respState, diags, requests, sent,
          provider, inflight, op>>

-----------------------------------------------------------------------------
(* Bounds *)

\* UUIDs the remote hands out in one run (projects and members together).
MaxUUIDs == 2
\* Longest import identifier tried, in tokens.
MaxImportLen == 3
MaxListLen == 2

-----------------------------------------------------------------------------
(* Strings *)

Empty == <<>>

UUIDTable == <<"id-1", "id-2", "id-3", "id-4">>

\* faker.UUIDHyphenated(): the n-th value handed out, never seen before.
UUIDHyphenated(n) == <<UUIDTable[n]>>

SeedProjectId == <<"0faaecfb">>
orgId == <<"org-1">>
Now == <<"now">>
SeedTime == <<"2024-01-01T00:00:00Z">>
FakerUserId == <<"faker-user">>
FakerEmail == <<"faker@example.com">>
FakerName == <<"Faker Name">>

\* strings.Split(s, "/"): the segments between the "/" tokens; always at
\* least one segment, and empty segments are kept.
RECURSIVE Split(_)
Split(s) ==
    IF \A i \in 1..Len(s) : s[i] # "/"
    THEN <<s>>
    ELSE LET k == CHOOSE i \in 1..Len(s) : s[i] = "/" /\ \A j \in 1..(i-1) : s[j] # "/"
         IN <<SubSeq(s, 1, k-1)>> \o Split(SubSeq(s, k+1, Len(s)))

-----------------------------------------------------------------------------
(* terraform-plugin-framework attribute values *)

Null == [k |-> "null", v |-> Empty]
Unknown == [k |-> "unknown", v |-> Empty]
StringValue(s) == [k |-> "known", v |-> s]
BoolValue(b) == [k |-> "known", v |-> b]
IsNull(x) == x.k = "null"
IsUnknown(x) == x.k = "unknown"
IsKnown(x) == x.k = "known"
ValueString(x) == IF x.k = "known" THEN x.v ELSE Empty

\* No recorded state (resp.State after RemoveResource, or before Create).
NoState == [removed |-> TRUE]

-----------------------------------------------------------------------------
(* JSON bodies *)

\* A body that is not a JSON document (http.Error's plain text, or bytes
\* mangled on the way).
Text(s) == [text |-> s]
NoBody == Text(Empty)
IsJSON(b) == "text" \notin DOMAIN b
Field(b, f) == IF f \in DOMAIN b THEN b[f] ELSE Empty

\* *string in the mock's Project.
NilString == [nil |-> TRUE, s |-> Empty]
PtrTo(s) == [nil |-> FALSE, s |-> s]

-----------------------------------------------------------------------------
(* The remote API as served by tests/main.go *)

\* json.NewDecoder(r.Body).Decode(&p) into the mock's Project.
DecodeProject(b) ==
    [Id |-> Field(b, "id"),
     Name |-> Field(b, "name"),
     Description |-> IF "description" \in DOMAIN b THEN PtrTo(b["description"]) ELSE NilString,
     OrganisationId |-> Field(b, "organisation_id"),
     Archived |-> IF "archived" \in DOMAIN b THEN b["archived"] ELSE FALSE,
     ArchivedAt |-> Field(b, "archived_at"),
     CreatedAt |-> Field(b, "created_at"),
     UpdatedAt |-> Field(b, "updated_at")]

\* json.NewEncoder(w).Encode(p) of the mock's Project: description is
\* omitempty on a pointer, every other field is always written.
EncodeProject(p) ==
    IF p.Description.nil
    THEN [id |-> p.Id, name |-> p.Name, organisation_id |-> p.OrganisationId,
          archived |-> p.Archived, archived_at |-> p.ArchivedAt,
          created_at |-> p.CreatedAt, updated_at |-> p.UpdatedAt]
    ELSE [id |-> p.Id, name |-> p.Name, description |-> p.Description.s,
          organisation_id |-> p.OrganisationId,
          archived |-> p.Archived, archived_at |-> p.ArchivedAt,
          created_at |-> p.CreatedAt, updated_at |-> p.UpdatedAt]

\* Decode into the mock's ProjectMember.
DecodeProjectMember(b) ==
    [Id |-> Field(b, "id"),
     ProjectId |-> Field(b, "project_id"),
     UserId |-> Field(b, "user_id"),
     EMail |-> Field(b, "email"),
     DisplayName |-> Field(b, "display_name"),
     CreatedAt |-> Field(b, "created_at"),
     UpdatedAt |-> Field(b, "updated_at")]

\* The ProjectMemberResponse the mock builds from a stored member and encodes.
ProjectMemberResponse(m) ==
    [id |-> m.Id,
     project_id |-> m.ProjectId,
     user_id |-> m.UserId,
     created_at |-> m.CreatedAt,
     updated_at |-> m.UpdatedAt,
     links |-> [project |-> <<"/api/v1/projects/">> \o m.ProjectId],
     user |-> [id |-> m.UserId, email |-> m.EMail, display_name |-> m.DisplayName]]

\* The store main() starts the server with.
SeedProject ==
    [Id |-> SeedProjectId, Name |-> <<"test1">>, Description |-> NilString,
     OrganisationId |-> orgId, Archived |-> FALSE, ArchivedAt |-> Empty,
     CreatedAt |-> SeedTime, UpdatedAt |-> SeedTime]

\* What a handler hands back: the response and the stores after it.
Served(status, body, P, M, n) ==
    [status |-> status, body |-> body, projects |-> P, projectMembers |-> M, issued |-> n]

\* projects[p.Id] = p, then 201 with the project encoded.
PostedProject(p, P, M, n) ==
    Served(201, EncodeProject(p), (p.Id :> p) @@ P, M, n + 1)

handlePostProject(req, P, M, n) ==
    IF ~IsJSON(req.body)
    THEN Served(400, Text(<<"invalid character">>), P, M, n)
    ELSE PostedProject([DecodeProject(req.body) EXCEPT
                            !.Id = UUIDHyphenated(n + 1), !.OrganisationId = orgId,
                            !.CreatedAt = Now, !.UpdatedAt = Now],
                       P, M, n)

handleGetProject(id, P, M, n) ==
    IF id \notin DOMAIN P
    THEN Served(404, Text(<<"Project not found">>), P, M, n)
    ELSE Served(200, EncodeProject(P[id]), P, M, n)

\* projectMembers[p.Id] = p, then 201 with the member's response encoded.
PostedProjectMember(p, P, M, n) ==
    Served(201, ProjectMemberResponse(p), P, (p.Id :> p) @@ M, n + 1)

\* The decoded member with what the mock assigns: a fresh id, a user id and
\* an email where the request gave none, a display name, the project of the URL.
AssignedProjectMember(d, project_id, n) ==
    [d EXCEPT
        !.Id = UUIDHyphenated(n + 1),
        !.UserId = IF d.UserId = Empty THEN FakerUserId ELSE d.UserId,
        !.EMail = IF d.EMail = Empty THEN FakerEmail ELSE d.EMail,
        !.DisplayName = FakerName,
        !.ProjectId = project_id,
        !.CreatedAt = Now, !.UpdatedAt = Now]

handlePostProjectMember(project_id, req, P, M, n) ==
    IF project_id \notin DOMAIN P
    THEN Served(404, Text(<<"Project not found">>), P, M, n)
    ELSE IF ~IsJSON(req.body)
    THEN Served(400, Text(<<"invalid character">>), P, M, n)
    ELSE PostedProjectMember(AssignedProjectMember(DecodeProjectMember(req.body), project_id, n),
                             P, M, n)

handleGetProjectMember(project_id, id, P, M, n) ==
    IF project_id \notin DOMAIN P
    THEN Served(404, Text(<<"Project not found">>), P, M, n)
    ELSE IF id \notin DOMAIN M
    THEN Served(404, Text(<<"Project Member not found">>), P, M, n)
    ELSE Served(200, ProjectMemberResponse(M[id]), P, M, n)

\* A remote that would answer a delete with 204 and keep the member, for comparison.
handleDeleteProjectMemberKept(project_id, id, P, M, n) ==
    IF project_id \notin DOMAIN P
    THEN Served(404, Text(<<"Project not found">>), P, M, n)
    ELSE IF id \notin DOMAIN M
    THEN Served(404, Text(<<"Project Member not found">>), P, M, n)
    ELSE Served(204, NoBody, P, M, n)

handleDeleteProjectMember(project_id, id, P, M, n) ==
    IF project_id \notin DOMAIN P
    THEN Served(404, Text(<<"Project not found">>), P, M, n)
    ELSE IF id \notin DOMAIN M
    THEN Served(404, Text(<<"Project Member not found">>), P, M, n)
    ELSE Served(204, NoBody, P, [k \in DOMAIN M \ {id} |-> M[k]], n)

\* The tokens that separate path variables; a mux variable {id} matches a
\* non-empty run of anything else.
PathTokens == {"/", "/api/v1/projects", "/api/v1/projects/", "/members", "/members/"}
IsSegment(s) == Len(s) >= 1 /\ \A i \in 1..Len(s) : s[i] \notin PathTokens

IsProjectsPath(path) == path = <<"/api/v1/projects">>
IsProjectPath(path) ==
    Len(path) >= 2 /\ path[1] = "/api/v1/projects/" /\ IsSegment(Tail(path))
IsMembersPath(path) ==
    /\ Len(path) >= 3 /\ path[1] = "/api/v1/projects/" /\ path[Len(path)] = "/members"
    /\ IsSegment(SubSeq(path, 2, Len(path) - 1))
MemberSplit(path) ==
    {k \in 3..(Len(path) - 1) :
        /\ path[k] = "/members/"
        /\ IsSegment(SubSeq(path, 2, k - 1))
        /\ IsSegment(SubSeq(path, k + 1, Len(path)))}
IsMemberPath(path) ==
    Len(path) >= 4 /\ path[1] = "/api/v1/projects/" /\ MemberSplit(path) # {}

\* mux.Vars(r) of a member path.
MemberPathProject(path) == SubSeq(path, 2, (CHOOSE k \in MemberSplit(path) : TRUE) - 1)
MemberPathId(path) == SubSeq(path, (CHOOSE k \in MemberSplit(path) : TRUE) + 1, Len(path))

\* The routes main() registers: the handler of the route that matches, 405
\* when only the method differs, 404 when no route matches the path.
ServeHTTP(req, P, M, n) ==
    IF IsProjectsPath(req.path) THEN
        IF req.method = "POST" THEN handlePostProject(req, P, M, n)
        ELSE Served(405, Text(Empty), P, M, n)
    ELSE IF IsProjectPath(req.path) THEN
        IF req.method = "GET" THEN handleGetProject(Tail(req.path), P, M, n)
        ELSE Served(405, Text(Empty), P, M, n)
    ELSE IF IsMembersPath(req.path) THEN
        IF req.method = "POST"
        THEN handlePostProjectMember(SubSeq(req.path, 2, Len(req.path) - 1), req, P, M, n)
        ELSE Served(405, Text(Empty), P, M, n)
    ELSE IF IsMemberPath(req.path) THEN
        IF req.method = "GET"
        THEN handleGetProjectMember(MemberPathProject(req.path), MemberPathId(req.path), P, M, n)
        ELSE IF req.method = "DELETE"
        THEN handleDeleteProjectMember(MemberPathProject(req.path), MemberPathId(req.path), P, M, n)
        ELSE Served(405, Text(Empty), P, M, n)
    ELSE Served(404, Text(<<"404 page not found">>), P, M, n)

-----------------------------------------------------------------------------
(* The transport: what r.client.Do and io.ReadAll give a handler back *)

\* A remote that stores what it is sent in its own canonical spelling.
Canon(str) ==
    [i \in 1..Len(str) |->
        CASE str[i] = "Test Project" -> "test project"
          [] str[i] = "User@Example.com" -> "user@example.com"
          [] OTHER -> str[i]]
CanonBody(b) == IF IsJSON(b) THEN [f \in DOMAIN b |-> Canon(b[f])] ELSE b

\* How one exchange can go: the remote serves the request as sent, serves it
\* after canonicalising the body, is never reached, answers but the answer is
\* lost, rejects the credentials, or answers with bytes that are not
\* the JSON document it meant to send.
Modes == {"served", "normalised", "refused", "lost", "unauthorized", "mangled"}

Reply(err, status, body, P, M, n) ==
    [err |-> err, status |-> status, body |-> body,
     projects |-> P, projectMembers |-> M, issued |-> n]

\* The exchange as the handler sees it, s being what the remote served.
Exchange(mode, s, P, M, n) ==
    CASE mode \in {"served", "normalised"} ->
            Reply(FALSE, s.status, s.body, s.projects, s.projectMembers, s.issued)
      [] mode = "refused" -> Reply(TRUE, 0, NoBody, P, M, n)
      [] mode = "lost" -> Reply(TRUE, 0, NoBody, s.projects, s.projectMembers, s.issued)
      [] mode = "unauthorized" -> Reply(FALSE, 401, Text(<<"Unauthorized">>), P, M, n)
      [] mode = "mangled" ->
            Reply(FALSE, s.status, Text(<<"<html>">>), s.projects, s.projectMembers, s.issued)

Do(req, mode, P, M, n) ==
    Exchange(mode,
             ServeHTTP(IF mode = "normalised"
                       THEN [req EXCEPT !.body = CanonBody(req.body)] ELSE req,
                       P, M, n),
             P, M, n)

\* url.Parse inside http.NewRequestWithContext: the path of a URL ends at its
\* first "?", what follows is the query.
URLPath(url) ==
    IF \A i \in 1..Len(url) : url[i] # "?"
    THEN url
    ELSE SubSeq(url, 1, (CHOOSE i \in 1..Len(url) :
                            url[i] = "?" /\ \A j \in 1..(i-1) : url[j] # "?") - 1)
RawQuery(url) == SubSeq(url, Len(URLPath(url)) + 1, Len(url))

Request(method, url, body) ==
    [method |-> method, path |-> URLPath(url), query |-> RawQuery(url), body |-> body]

-----------------------------------------------------------------------------
(* The provider: Configure and the client it hands to resources *)

\* http.DefaultClient: requests go out as the handler built them.
DefaultClient == [authenticated |-> FALSE, apiKey |-> Empty]

\* http.Client{Transport: &authenticatedTransport{apiKey, http.DefaultTransport}}.
AuthenticatedClient(apiKey) == [authenticated |-> TRUE, apiKey |-> apiKey]

\* data.ApiKey once SWITCHCLOUD_API_KEY, when not empty, has replaced it.
EffectiveApiKey(config, env) == IF env # Empty THEN StringValue(env) ELSE config.ApiKey

\* SwitchcloudProvider.Configure: the client in providerData.
Configure(config, env) ==
    IF ~IsNull(EffectiveApiKey(config, env))
    THEN AuthenticatedClient(ValueString(EffectiveApiKey(config, env)))
    ELSE DefaultClient

\* A request on the wire: the request and its Authorization header, if any.
NoHeader == [set |-> FALSE, value |-> Empty]
HeaderSet(v) == [set |-> TRUE, value |-> v]

\* authenticatedTransport.RoundTrip, or the default transport.
RoundTrip(client, req) ==
    [request |-> req,
     Authorization |-> IF client.authenticated
                       THEN HeaderSet(<<"Bearer ">> \o client.apiKey)
                       ELSE NoHeader]

\* client.Do on each request of a call.
Sent(client, reqs) == [k \in 1..Len(reqs) |-> RoundTrip(client, reqs[k])]

-----------------------------------------------------------------------------
(* Diagnostics *)

Diag(summary, detail) == [summary |-> summary, detail |-> detail]
ErrDiag(what) == Diag("Client Error", [msg |-> what])
StatusDiag(status, body) ==
    Diag("Client Error", [msg |-> "API returned status", status |-> status, body |-> body])
HasError(ds) == Len(ds) > 0
HasSummary(ds, summary) == \E i \in 1..Len(ds) : ds[i].summary = summary

\* What a handler leaves behind: resp.State, resp.Diagnostics, the requests it
\* sent and the remote after them.
Response(state, ds, reqs, r) ==
    [State |-> state, Diagnostics |-> ds, Requests |-> reqs, Remote |-> r]
Untouched(P, M, n) == Reply(FALSE, 0, NoBody, P, M, n)

-----------------------------------------------------------------------------
(* The project resource *)

\* json.Unmarshal(body, &project) into the provider's Project: a field the
\* document does not carry keeps its zero value.
UnmarshalProject(b) ==
    [Id |-> Field(b, "id"),
     Name |-> Field(b, "name"),
     Description |-> Field(b, "description"),
     OrganisationId |-> Field(b, "organisation_id"),
     Archived |-> IF "archived" \in DOMAIN b THEN b["archived"] ELSE FALSE,
     ArchivedAt |-> Field(b, "archived_at"),
     CreatedAt |-> Field(b, "created_at"),
     UpdatedAt |-> Field(b, "updated_at")]

\* The ProjectCreateRequest Create fills in from the plan.
ProjectCreateRequest(data) ==
    [Name |-> ValueString(data.Name),
     Description |-> IF ~IsNull(data.Description)
                     THEN ValueString(data.Description) ELSE Empty]

\* A Marshal that would always write description, for comparison.
MarshalProjectCreateRequestFull(r) ==
    [name |-> r.Name, description |-> r.Description]

\* json.Marshal(createRequest): description is omitempty.
MarshalProjectCreateRequest(r) ==
    IF r.Description = Empty
    THEN [name |-> r.Name]
    ELSE [name |-> r.Name, description |-> r.Description]

\* A Create that would keep an id the plan already knew, for comparison.
ProjectCreateModelKeepingId(data, project) ==
    [data EXCEPT
        !.Id = IF IsKnown(data.Id) THEN data.Id ELSE StringValue(project.Id),
        !.Name = StringValue(project.Name),
        !.Description = StringValue(project.Description),
        !.OrganisationId = StringValue(project.OrganisationId),
        !.Archived = BoolValue(project.Archived),
        !.ArchivedAt = StringValue(project.ArchivedAt),
        !.CreatedAt = StringValue(project.CreatedAt),
        !.UpdatedAt = StringValue(project.UpdatedAt)]

\* "Update model with response data" in Create.
ProjectCreateModel(data, project) ==
    [data EXCEPT
        !.Id = StringValue(project.Id),
        !.Name = StringValue(project.Name),
        !.Description = StringValue(project.Description),
        !.OrganisationId = StringValue(project.OrganisationId),
        !.Archived = BoolValue(project.Archived),
        !.ArchivedAt = StringValue(project.ArchivedAt),
        !.CreatedAt = StringValue(project.CreatedAt),
        !.UpdatedAt = StringValue(project.UpdatedAt)]

\* A Read that would leave the recorded description alone, for comparison.
ProjectReadModelKeepingDescription(data, project) ==
    [data EXCEPT
        !.Id = StringValue(project.Id),
        !.Name = StringValue(project.Name),
        !.OrganisationId = StringValue(project.OrganisationId),
        !.Archived = BoolValue(project.Archived),
        !.ArchivedAt = StringValue(project.ArchivedAt),
        !.CreatedAt = StringValue(project.CreatedAt),
        !.UpdatedAt = StringValue(project.UpdatedAt)]

\* "Update model with response data" in Read.
ProjectReadModel(data, project) ==
    [data EXCEPT
        !.Id = StringValue(project.Id),
        !.Name = StringValue(project.Name),
        !.Description = StringValue(project.Description),
        !.OrganisationId = StringValue(project.OrganisationId),
        !.Archived = BoolValue(project.Archived),
        !.ArchivedAt = StringValue(project.ArchivedAt),
        !.CreatedAt = StringValue(project.CreatedAt),
        !.UpdatedAt = StringValue(project.UpdatedAt)]

\* The request Create builds.
ProjectCreateHTTPRequest(data) ==
    Request("POST", <<"/api/v1/projects">>,
            MarshalProjectCreateRequest(ProjectCreateRequest(data)))

\* Create from the API call on, r being what client.Do and io.ReadAll returned.
ProjectCreateAnswered(data, httpReq, r) ==
    IF r.err
    THEN Response(NoState, <<ErrDiag("Unable to create project")>>, <<httpReq>>, r)
    ELSE IF r.status # 201
    THEN Response(NoState, <<StatusDiag(r.status, r.body)>>, <<httpReq>>, r)
    ELSE IF ~IsJSON(r.body)
    THEN Response(NoState, <<ErrDiag("Unable to parse response")>>, <<httpReq>>, r)
    ELSE Response(ProjectCreateModel(data, UnmarshalProject(r.body)), <<>>, <<httpReq>>, r)

ProjectCreate(data, mode, P, M, n) ==
    ProjectCreateAnswered(data, ProjectCreateHTTPRequest(data),
                          Do(ProjectCreateHTTPRequest(data), mode, P, M, n))

\* The request Read builds from the prior state.
ProjectReadHTTPRequest(data) ==
    Request("GET", <<"/api/v1/projects/">> \o ValueString(data.Id), NoBody)

\* A Read that would drop the project on any status but 200, for comparison.
ProjectReadAnsweredDropping(data, httpReq, r) ==
    IF r.err
    THEN Response(data, <<ErrDiag("Unable to read project")>>, <<httpReq>>, r)
    ELSE IF r.status = 404
    THEN Response(NoState, <<>>, <<httpReq>>, r)
    ELSE IF r.status # 200
    THEN Response(NoState, <<StatusDiag(r.status, r.body)>>, <<httpReq>>, r)
    ELSE IF ~IsJSON(r.body)
    THEN Response(data, <<ErrDiag("Unable to parse response")>>, <<httpReq>>, r)
    ELSE Response(ProjectReadModel(data, UnmarshalProject(r.body)), <<>>, <<httpReq>>, r)

\* Read from the API call on.
ProjectReadAnswered(data, httpReq, r) ==
    IF r.err
    THEN Response(data, <<ErrDiag("Unable to read project")>>, <<httpReq>>, r)
    ELSE IF r.status = 404
    THEN Response(NoState, <<>>, <<httpReq>>, r)
    ELSE IF r.status # 200
    THEN Response(data, <<StatusDiag(r.status, r.body)>>, <<httpReq>>, r)
    ELSE IF ~IsJSON(r.body)
    THEN Response(data, <<ErrDiag("Unable to parse response")>>, <<httpReq>>, r)
    ELSE Response(ProjectReadModel(data, UnmarshalProject(r.body)), <<>>, <<httpReq>>, r)

ProjectRead(data, mode, P, M, n) ==
    ProjectReadAnswered(data, ProjectReadHTTPRequest(data),
                        Do(ProjectReadHTTPRequest(data), mode, P, M, n))

\* An Update that would record the plan and report nothing, for comparison.
ProjectUpdateApplied(prior, plan, P, M, n) ==
    Response(plan, <<>>, <<>>, Untouched(P, M, n))

\* A Delete that would report nothing and drop the project, for comparison.
ProjectDeleteSilent(prior, P, M, n) ==
    Response(NoState, <<>>, <<>>, Untouched(P, M, n))

\* resp.State starts as the prior state and Update leaves it alone.
ProjectUpdate(prior, plan, P, M, n) ==
    Response(prior,
             <<Diag("API Error", [msg |-> "Unable to update project, method is not implemented on server"])>>,
             <<>>, Untouched(P, M, n))

ProjectDelete(prior, P, M, n) ==
    Response(prior,
             <<Diag("API Error", [msg |-> "Unable to delete project, method is not implemented on server"])>>,
             <<>>, Untouched(P, M, n))

\* The RequiresReplace plan modifiers of name and description: a planned
\* value that differs from the recorded one asks for a replacement.
RequiresReplace(prior, plan) ==
    prior.Name # plan.Name \/ prior.Description # plan.Description

\* A replacement as Terraform applies it: Delete of the recorded project,
\* then, unless Delete reported an error, Create from the plan.
ProjectReplace(prior, plan, mode, P, M, n) ==
    IF HasError(ProjectDelete(prior, P, M, n).Diagnostics)
    THEN ProjectDelete(prior, P, M, n)
    ELSE ProjectCreate(plan, mode, P, M, n)

\* resource.ImportStatePassthroughID(ctx, path.Root("id"), req, resp): the
\* import identifier becomes id, every other attribute stays null.
ProjectImportState(ID, P, M, n) ==
    Response([Id |-> StringValue(ID), Name |-> Null, Description |-> Null,
              OrganisationId |-> Null, Archived |-> Null, ArchivedAt |-> Null,
              CreatedAt |-> Null, UpdatedAt |-> Null],
             <<>>, <<>>, Untouched(P, M, n))

-----------------------------------------------------------------------------
(* The project data source *)

\* A JSON array of project documents.
ListBody(list) == [list |-> list]
IsJSONList(b) == "list" \in DOMAIN b

\* ProjectDataSource.Schema as Terraform validates a configuration against
\* it: name is Required, id is Computed only and cannot be configured.
ProjectDataSourceValidate(config) ==
    (IF IsNull(config.Name)
     THEN <<Diag("Missing required argument", [msg |-> "name"])>> ELSE <<>>)
    \o (IF ~IsNull(config.Id)
        THEN <<Diag("Invalid Configuration for Read-Only Attribute", [msg |-> "id"])>> ELSE <<>>)

\* "Find project by name" that would take the last match, for comparison.
FindProjectLast(projects_, name) ==
    IF \A k \in 1..Len(projects_) : projects_[k].Name # name
    THEN 0
    ELSE CHOOSE k \in 1..Len(projects_) :
            projects_[k].Name = name /\ \A j \in (k+1)..Len(projects_) : projects_[j].Name # name

\* "Find project by name": the index of the first element whose Name is the
\* configured one, 0 when the loop ends without a match.
FindProject(projects_, name) ==
    IF \A k \in 1..Len(projects_) : projects_[k].Name # name
    THEN 0
    ELSE CHOOSE k \in 1..Len(projects_) :
            projects_[k].Name = name /\ \A j \in 1..(k-1) : projects_[j].Name # name

\* json.Unmarshal(body, &projects) into []Project.
UnmarshalProjects(b) == [k \in 1..Len(b.list) |-> UnmarshalProject(b.list[k])]

\* "Update model with response data".
ProjectDataSourceModel(project) ==
    [Id |-> StringValue(project.Id),
     Name |-> StringValue(project.Name),
     Description |-> StringValue(project.Description),
     OrganisationId |-> StringValue(project.OrganisationId),
     Archived |-> BoolValue(project.Archived),
     ArchivedAt |-> StringValue(project.ArchivedAt),
     CreatedAt |-> StringValue(project.CreatedAt),
     UpdatedAt |-> StringValue(project.UpdatedAt)]

ProjectDataSourceHTTPRequest == Request("GET", <<"/api/v1/projects">>, NoBody)

\* Read once the list is parsed.
ProjectDataSourceFound(data, projects_, httpReq, r) ==
    IF FindProject(projects_, ValueString(data.Name)) = 0
    THEN Response(NoState, <<Diag("Not Found", [msg |-> "No project found with name"])>>, <<httpReq>>, r)
    ELSE Response(ProjectDataSourceModel(projects_[FindProject(projects_, ValueString(data.Name))]),
                  <<>>, <<httpReq>>, r)

\* Read from the API call on; resp.State of a data source starts empty.
ProjectDataSourceAnswered(data, httpReq, r) ==
    IF r.err
    THEN Response(NoState, <<ErrDiag("Unable to read projects")>>, <<httpReq>>, r)
    ELSE IF r.status # 200
    THEN Response(NoState, <<StatusDiag(r.status, r.body)>>, <<httpReq>>, r)
    ELSE IF ~IsJSONList(r.body)
    THEN Response(NoState, <<ErrDiag("Unable to parse response")>>, <<httpReq>>, r)
    ELSE ProjectDataSourceFound(data, UnmarshalProjects(r.body), httpReq, r)

\* ProjectDataSource.Read, r being what d.client.Do and io.ReadAll gave.
ProjectDataSourceRead(data, r) ==
    ProjectDataSourceAnswered(data, ProjectDataSourceHTTPRequest, r)

-----------------------------------------------------------------------------
(* The project member resource *)

\* json.Unmarshal(body, &projectMember) into the provider's ProjectMember.
UnmarshalProjectMember(b) ==
    [Id |-> Field(b, "id"),
     ProjectId |-> Field(b, "project_id"),
     UserId |-> Field(b, "user_id"),
     User |-> IF "user" \in DOMAIN b
              THEN [Id |-> Field(b["user"], "id"),
                    EMail |-> Field(b["user"], "email"),
                    DisplayName |-> Field(b["user"], "display_name")]
              ELSE [Id |-> Empty, EMail |-> Empty, DisplayName |-> Empty]]

\* A validation that would only ask for at least one of the two, for comparison.
ValidateConfigLax(config) ==
    IF IsNull(config.UserId) /\ IsNull(config.EMail)
    THEN <<Diag("Configuration Error",
                [msg |-> "Either 'user_id' or 'email' must be provided for a project member."])>>
    ELSE <<>>

\* The diagnostics ValidateConfig adds for a configuration.
ValidateConfig(config) ==
    (IF IsNull(config.UserId) /\ IsNull(config.EMail)
     THEN <<Diag("Configuration Error",
                 [msg |-> "Either 'user_id' or 'email' must be provided for a project member."])>>
     ELSE <<>>)
    \o
    (IF ~IsNull(config.UserId) /\ ~IsNull(config.EMail)
     THEN <<Diag("Configuration Error",
                 [msg |-> "Only one of 'user_id' or 'email' can be provided for a project member."])>>
     ELSE <<>>)

\* The ProjectMemberCreateRequest Create fills in from the plan.
ProjectMemberCreateRequest(data) ==
    IF IsUnknown(data.UserId)
    THEN [UserId |-> Empty, EMail |-> ValueString(data.EMail)]
    ELSE [UserId |-> ValueString(data.UserId), EMail |-> Empty]

\* json.Marshal(createRequest): both fields are omitempty.
MarshalProjectMemberCreateRequest(r) ==
    LET fields == (IF r.UserId # Empty THEN {"user_id"} ELSE {})
                  \cup (IF r.EMail # Empty THEN {"email"} ELSE {})
    IN [f \in fields |-> IF f = "user_id" THEN r.UserId ELSE r.EMail]

\* "Update model with response data" in Create.
ProjectMemberCreateModel(data, projectMember) ==
    [data EXCEPT
        !.Id = StringValue(projectMember.Id),
        !.ProjectId = StringValue(projectMember.ProjectId),
        !.UserId = StringValue(projectMember.UserId),
        !.EMail = StringValue(projectMember.User.EMail),
        !.DisplayName = StringValue(projectMember.User.DisplayName)]

\* A Read that would take the display name from the user's email, for comparison.
ProjectMemberReadModelMisnamed(data, projectMember) ==
    [data EXCEPT
        !.Id = StringValue(projectMember.Id),
        !.ProjectId = StringValue(projectMember.ProjectId),
        !.UserId = StringValue(projectMember.UserId),
        !.EMail = StringValue(projectMember.User.EMail),
        !.DisplayName = StringValue(projectMember.User.EMail)]

\* A Read that would keep an email the prior state already knew, for comparison.
ProjectMemberReadModelKeepingEMail(data, projectMember) ==
    [data EXCEPT
        !.Id = StringValue(projectMember.Id),
        !.ProjectId = StringValue(projectMember.ProjectId),
        !.UserId = StringValue(projectMember.UserId),
        !.EMail = IF IsKnown(data.EMail) THEN data.EMail ELSE StringValue(projectMember.User.EMail),
        !.DisplayName = StringValue(projectMember.User.DisplayName)]

\* "Update model with response data" in Read.
ProjectMemberReadModel(data, projectMember) ==
    [data EXCEPT
        !.Id = StringValue(projectMember.Id),
        !.ProjectId = StringValue(projectMember.ProjectId),
        !.UserId = StringValue(projectMember.UserId),
        !.EMail = StringValue(projectMember.User.EMail),
        !.DisplayName = StringValue(projectMember.User.DisplayName)]

\* "Update model with response data" in ImportState.
ProjectMemberImportModel(data, projectMember) ==
    [data EXCEPT
        !.Id = StringValue(projectMember.Id),
        !.ProjectId = StringValue(projectMember.ProjectId),
        !.UserId = StringValue(projectMember.UserId),
        !.EMail = StringValue(projectMember.User.EMail),
        !.DisplayName = StringValue(projectMember.User.DisplayName)]

\* var data ProjectMemberResourceModel: the zero value of types.String is null.
ZeroProjectMemberResourceModel ==
    [Id |-> Null, ProjectId |-> Null, UserId |-> Null, EMail |-> Null, DisplayName |-> Null]

\* The URL of one member as Read and Delete build it from the model.
ProjectMemberURL(data) ==
    <<"/api/v1/projects/">> \o ValueString(data.ProjectId)
        \o <<"/members/">> \o ValueString(data.Id)

\* The URL ImportState builds: from its local data, which nothing has filled.
ProjectMemberImportURL(data, projectId, memberId) ==
    <<"/api/v1/projects/">> \o ValueString(data.ProjectId)
        \o <<"/members/">> \o ValueString(data.Id)

\* The request Create builds.
ProjectMemberCreateHTTPRequest(data) ==
    Request("POST",
            <<"/api/v1/projects/">> \o ValueString(data.ProjectId) \o <<"/members">>,
            MarshalProjectMemberCreateRequest(ProjectMemberCreateRequest(data)))

\* A Create that would save the plan before it looks at the status, for comparison.
ProjectMemberCreateAnsweredSaving(data, httpReq, r) ==
    IF r.err
    THEN Response(NoState, <<ErrDiag("Unable to create project member")>>, <<httpReq>>, r)
    ELSE IF r.status # 201
    THEN Response(data, <<StatusDiag(r.status, r.body)>>, <<httpReq>>, r)
    ELSE IF ~IsJSON(r.body)
    THEN Response(data, <<ErrDiag("Unable to parse response")>>, <<httpReq>>, r)
    ELSE Response(ProjectMemberCreateModel(data, UnmarshalProjectMember(r.body)),
                  <<>>, <<httpReq>>, r)

\* Create from the API call on.
ProjectMemberCreateAnswered(data, httpReq, r) ==
    IF r.err
    THEN Response(NoState, <<ErrDiag("Unable to create project member")>>, <<httpReq>>, r)
    ELSE IF r.status # 201
    THEN Response(NoState, <<StatusDiag(r.status, r.body)>>, <<httpReq>>, r)
    ELSE IF ~IsJSON(r.body)
    THEN Response(NoState, <<ErrDiag("Unable to parse response")>>, <<httpReq>>, r)
    ELSE Response(ProjectMemberCreateModel(data, UnmarshalProjectMember(r.body)),
                  <<>>, <<httpReq>>, r)

ProjectMemberCreate(data, mode, P, M, n) ==
    ProjectMemberCreateAnswered(data, ProjectMemberCreateHTTPRequest(data),
                                Do(ProjectMemberCreateHTTPRequest(data), mode, P, M, n))

\* A Read that would take 404 for a failure like any other status, for comparison.
ProjectMemberReadAnsweredStrict(data, httpReq, r) ==
    IF r.err
    THEN Response(data, <<ErrDiag("Unable to read project")>>, <<httpReq>>, r)
    ELSE IF r.status # 200
    THEN Response(data, <<StatusDiag(r.status, r.body)>>, <<httpReq>>, r)
    ELSE IF ~IsJSON(r.body)
    THEN Response(data, <<ErrDiag("Unable to parse response")>>, <<httpReq>>, r)
    ELSE Response(ProjectMemberReadModel(data, UnmarshalProjectMember(r.body)),
                  <<>>, <<httpReq>>, r)

\* Read from the API call on.
ProjectMemberReadAnswered(data, httpReq, r) ==
    IF r.err
    THEN Response(data, <<ErrDiag("Unable to read project")>>, <<httpReq>>, r)
    ELSE IF r.status = 404
    THEN Response(NoState, <<>>, <<httpReq>>, r)
    ELSE IF r.status # 200
    THEN Response(data, <<StatusDiag(r.status, r.body)>>, <<httpReq>>, r)
    ELSE IF ~IsJSON(r.body)
    THEN Response(data, <<ErrDiag("Unable to parse response")>>, <<httpReq>>, r)
    ELSE Response(ProjectMemberReadModel(data, UnmarshalProjectMember(r.body)),
                  <<>>, <<httpReq>>, r)

ProjectMemberRead(data, mode, P, M, n) ==
    ProjectMemberReadAnswered(data, Request("GET", ProjectMemberURL(data), NoBody),
                              Do(Request("GET", ProjectMemberURL(data), NoBody), mode, P, M, n))

ProjectMemberUpdate(prior, plan, P, M, n) ==
    Response(prior,
             <<Diag("API Error", [msg |-> "Unable to update project member, method is not implemented on server"])>>,
             <<>>, Untouched(P, M, n))

\* A Delete that would send its request again after a failure, for comparison.
ProjectMemberDeleteAnsweredRetrying(data, httpReq, r) ==
    IF r.err
    THEN Response(data, <<ErrDiag("Unable to delete project member")>>, <<httpReq, httpReq>>, r)
    ELSE IF r.status # 204
    THEN Response(data, <<StatusDiag(r.status, r.body)>>, <<httpReq, httpReq>>, r)
    ELSE Response(data, <<>>, <<httpReq>>, r)

\* Delete from the API call on; it never touches resp.State, which starts as
\* the prior state.
ProjectMemberDeleteAnswered(data, httpReq, r) ==
    IF r.err
    THEN Response(data, <<ErrDiag("Unable to delete project member")>>, <<httpReq>>, r)
    ELSE IF r.status # 204
    THEN Response(data, <<StatusDiag(r.status, r.body)>>, <<httpReq>>, r)
    ELSE Response(data, <<>>, <<httpReq>>, r)

ProjectMemberDelete(data, mode, P, M, n) ==
    ProjectMemberDeleteAnswered(data, Request("DELETE", ProjectMemberURL(data), NoBody),
                                Do(Request("DELETE", ProjectMemberURL(data), NoBody), mode, P, M, n))

\* resp.State.SetAttribute of project_id and id on the empty import state.
ImportedIdentity(projectId, memberId) ==
    [ZeroProjectMemberResourceModel EXCEPT
        !.ProjectId = StringValue(projectId), !.Id = StringValue(memberId)]

\* ImportState from the API call on; set is resp.State as SetAttribute left it.
ProjectMemberImportAnswered(data, set, httpReq, r) ==
    IF r.err
    THEN Response(set, <<ErrDiag("Unable to read project")>>, <<httpReq>>, r)
    ELSE IF r.status = 404
    THEN Response(NoState, <<>>, <<httpReq>>, r)
    ELSE IF r.status # 200
    THEN Response(set, <<StatusDiag(r.status, r.body)>>, <<httpReq>>, r)
    ELSE IF ~IsJSON(r.body)
    THEN Response(set, <<ErrDiag("Unable to parse response")>>, <<httpReq>>, r)
    ELSE Response(ProjectMemberImportModel(data, UnmarshalProjectMember(r.body)),
                  <<>>, <<httpReq>>, r)

\* ImportState once the identifier has split in two.
ProjectMemberImportParsed(data, projectId, memberId, mode, P, M, n) ==
    ProjectMemberImportAnswered(
        data, ImportedIdentity(projectId, memberId),
        Request("GET", ProjectMemberImportURL(data, projectId, memberId), NoBody),
        Do(Request("GET", ProjectMemberImportURL(data, projectId, memberId), NoBody),
           mode, P, M, n))

\* The identifier is accepted when strings.Split gives two parts.
ImportIdAccepted(parts) == Len(parts) = 2

ProjectMemberImportState(ID, mode, P, M, n) ==
    IF ~ImportIdAccepted(Split(ID))
    THEN Response(NoState,
                  <<Diag("Unexpected Import Identifier",
                         [msg |-> "Expected import identifier with format: project_id/member_id. Got: ",
                          id |-> ID])>>,
                  <<>>, Untouched(P, M, n))
    ELSE ProjectMemberImportParsed(ZeroProjectMemberResourceModel,
                                   Split(ID)[1], Split(ID)[2], mode, P, M, n)

-----------------------------------------------------------------------------
(* What the caller hands the provider *)

\* Metadata: req.ProviderTypeName + "_project" and + "_project_member".
ProjectTypeName == "switchcloud_project"
ProjectMemberTypeName == "switchcloud_project_member"

\* The data source has the resource's type name; Terraform addresses it as
\* data.switchcloud_project.
ProjectDataSourceTypeName == "data.switchcloud_project"

ProjectInstances == {"a"}
MemberInstances == {"a"}

\* The member instances the caller reconciles at the same time.
ConcurrentInstances == {"a", "b"}

\* The id a plan handed to Create carries: unknown as Terraform plans a
\* Computed attribute of a new resource, or a value where the caller gives one.
PlannedIds == {Unknown, StringValue(<<"wanted-id">>)}

\* The plan of a project that is to be created: name is required,
\* description optional (left out, "" or a text), everything else computed
\* and not yet known.
ProjectPlans ==
    {[Id |-> id, Name |-> StringValue(<<"Test Project">>), Description |-> d,
      OrganisationId |-> Unknown, Archived |-> Unknown, ArchivedAt |-> Unknown,
      CreatedAt |-> Unknown, UpdatedAt |-> Unknown] :
        id \in PlannedIds,
        d \in {Null, StringValue(Empty), StringValue(<<"This is a test project description.">>)}}

\* Member configurations as ValidateConfig can see them.
MemberConfigs ==
    {[Id |-> Null, ProjectId |-> StringValue(p), UserId |-> u, EMail |-> e, DisplayName |-> Null] :
        p \in {SeedProjectId, <<"id-1">>},
        u \in {Null, Unknown, StringValue(<<"user-12345">>)},
        e \in {Null, Unknown, StringValue(<<"User@Example.com">>)}}

\* At apply time every value of the configuration is resolved.
Resolved(config) == ~IsUnknown(config.UserId) /\ ~IsUnknown(config.EMail)

\* The plan of a member that is to be created: what the configuration leaves
\* null is unknown where the schema says Computed.
MemberPlan(config) ==
    [Id |-> Unknown,
     ProjectId |-> config.ProjectId,
     UserId |-> IF IsNull(config.UserId) THEN Unknown ELSE config.UserId,
     EMail |-> IF IsNull(config.EMail) THEN Unknown ELSE config.EMail,
     DisplayName |-> Unknown]

\* Data source blocks as they can be written: with a name, with an id as the
\* README and the acceptance test write it, with both, with neither.
ProjectDataSourceConfigs ==
    {[Id |-> id, Name |-> name, Description |-> Null, OrganisationId |-> Null,
      Archived |-> Null, ArchivedAt |-> Null, CreatedAt |-> Null, UpdatedAt |-> Null] :
        id \in {Null, StringValue(SeedProjectId)},
        name \in {Null, StringValue(<<"test1">>), StringValue(<<"other">>), StringValue(<<"missing">>)}}

\* Project documents a list answer can carry: the seeded project, a second
\* project of the same name, and a project of another name.
ListedProjects ==
    {EncodeProject(SeedProject),
     EncodeProject([SeedProject EXCEPT !.Id = <<"id-1">>, !.Description = PtrTo(<<"second">>)]),
     EncodeProject([SeedProject EXCEPT !.Id = <<"id-2">>, !.Name = <<"other">>])}
Lists == UNION {[1..k -> ListedProjects] : k \in 0..MaxListLen}

\* How the list request can go: against the mock, which routes no GET on
\* /api/v1/projects; against an API that answers 200 with a list, with one
\* project document, or with bytes that are no JSON; or as any exchange can.
ListModes == {"served", "listed", "single", "mangled", "refused", "unauthorized"}
DoList(req, mode, list, P, M, n) ==
    CASE mode = "listed" -> Reply(FALSE, 200, ListBody(list), P, M, n)
      [] mode = "single" -> Reply(FALSE, 200, EncodeProject(SeedProject), P, M, n)
      [] mode = "mangled" -> Reply(FALSE, 200, Text(<<"<html>">>), P, M, n)
      [] OTHER -> Do(req, mode, P, M, n)

ImportTokens == {"/", "?", "0faaecfb", "id-1"}
ImportIds == UNION {[1..k -> ImportTokens] : k \in 0..MaxImportLen}

\* The api_key of the provider block: left out, set, or set from a value
\* that is not known yet when Configure runs.
ProviderConfigs == {[ApiKey |-> k] : k \in {Null, Unknown, StringValue(<<"key-1">>)}}

\* os.Getenv("SWITCHCLOUD_API_KEY").
ApiKeyEnvs == {Empty, <<"env-key">>}

\* No handler call of the instance is waiting for an answer.
NoCall == [name |-> "none"]

\* The locals of a handler call that has sent its request: the model it read,
\* the request, what client.Do and io.ReadAll will give it, and the remote as
\* it was when the request was sent.
Frame(name, data, mode, httpReq, r, P, M, n) ==
    [name |-> name, data |-> data, mode |-> mode, httpReq |-> httpReq, r |-> r,
     before |-> [projects |-> P, projectMembers |-> M, issued |-> n]]

\* Frames that would live in one place shared by all calls, for comparison.
SharedFrame(i, frames) ==
    IF \E j \in DOMAIN frames : j # i /\ frames[j] # NoCall
    THEN frames[CHOOSE j \in DOMAIN frames : j # i /\ frames[j] # NoCall]
    ELSE frames[i]

\* Every handler keeps data, httpReq, httpResp and body in local variables:
\* a call works on its own frame.
OwnFrame(i, frames) == frames[i]

\* What the handler of a frame does once the answer is there.
FrameAnswered(f) ==
    CASE f.name = "Create" -> ProjectMemberCreateAnswered(f.data, f.httpReq, f.r)
      [] f.name = "Read" -> ProjectMemberReadAnswered(f.data, f.httpReq, f.r)
      [] f.name = "Delete" -> ProjectMemberDeleteAnswered(f.data, f.httpReq, f.r)

Call(name, kind, inst, mode, status, input) ==
    [name |-> name, kind |-> kind, inst |-> inst, mode |-> mode, status |-> status, input |-> input]

-----------------------------------------------------------------------------
(* The state machine *)

Init ==
    /\ projects = (SeedProjectId :> SeedProject)
    /\ projectMembers = <<>>
    /\ issued = 0
    /\ typeName \in {ProjectTypeName, ProjectMemberTypeName, ProjectDataSourceTypeName}
    /\ pstate = [i \in ProjectInstances |-> NoState]
    /\ mstate = [i \in MemberInstances \cup ConcurrentInstances |-> NoState]
    /\ inflight = [i \in ConcurrentInstances |-> NoCall]
    /\ deleted = {}
    /\ respState = NoState
    /\ diags = <<>>
    /\ requests = <<>>
    /\ sent = <<>>
    /\ \E config \in ProviderConfigs, env \in ApiKeyEnvs :
          provider = [config |-> config, env |-> env, client |-> Configure(config, env)]
    /\ op = Call("Init", "none", "none", "none", 0, Empty)

\* What every handler call leaves: the remote after it, its diagnostics and
\* the requests it sent.
Returns(resp) ==
    /\ projects' = resp.Remote.projects
    /\ projectMembers' = resp.Remote.projectMembers
    /\ issued' = resp.Remote.issued
    /\ respState' = resp.State
    /\ diags' = resp.Diagnostics
    /\ requests' = resp.Requests
    /\ sent' = Sent(provider.client, resp.Requests)
    /\ UNCHANGED <<provider, inflight>>

\* What the caller records of a call's resp.State: the state of an import
\* that reported an error is not recorded.
Recorded(name, resp) ==
    IF name = "ImportState" /\ HasError(resp.Diagnostics) THEN NoState ELSE resp.State

\* A call of a project handler on instance i returned resp.
ProjectReturns(i, resp, name, mode, input) ==
    /\ typeName = ProjectTypeName
    /\ Returns(resp)
    /\ pstate' = [pstate EXCEPT ![i] = Recorded(name, resp)]
    /\ op' = Call(name, "project", i, mode, resp.Remote.status, input)
    /\ UNCHANGED <<typeName, mstate, deleted>>

\* The identity a member's recorded state addresses.
Identity(data) == [project_id |-> ValueString(data.ProjectId), id |-> ValueString(data.Id)]

\* A call of a member handler on instance i returned resp.
ProjectMemberReturns(i, resp, name, mode, input) ==
    /\ typeName = ProjectMemberTypeName
    /\ Returns(resp)
    /\ mstate' = [mstate EXCEPT ![i] = Recorded(name, resp)]
    /\ op' = Call(name, "member", i, mode, resp.Remote.status, input)
    /\ deleted' = IF name = "Delete" /\ ~resp.Remote.err /\ resp.Remote.status = 204
                  THEN deleted \cup {Identity(mstate[i])}
                  ELSE deleted
    /\ UNCHANGED <<typeName, pstate>>

ProjectCreateCall(i, plan, mode) ==
    /\ pstate[i] = NoState
    /\ issued < MaxUUIDs
    /\ ProjectReturns(i, ProjectCreate(plan, mode, projects, projectMembers, issued),
                      "Create", mode, plan)

ProjectReadCall(i, mode) ==
    /\ pstate[i] # NoState
    /\ ProjectReturns(i, ProjectRead(pstate[i], mode, projects, projectMembers, issued),
                      "Read", mode, Empty)

ProjectUpdateCall(i, plan) ==
    /\ pstate[i] # NoState
    /\ ProjectReturns(i, ProjectUpdate(pstate[i], plan, projects, projectMembers, issued),
                      "Update", "none", Empty)

ProjectDeleteCall(i) ==
    /\ pstate[i] # NoState
    /\ ProjectReturns(i, ProjectDelete(pstate[i], projects, projectMembers, issued),
                      "Delete", "none", Empty)

\* Applying a configuration whose name or description differs from the
\* recorded project.
ProjectReplaceCall(i, plan, mode) ==
    /\ pstate[i] # NoState
    /\ issued < MaxUUIDs
    /\ RequiresReplace(pstate[i], plan)
    /\ ProjectReturns(i, ProjectReplace(pstate[i], plan, mode, projects, projectMembers, issued),
                      "Replace", mode, plan)

ProjectImportStateCall(i, ID) ==
    /\ pstate[i] = NoState
    /\ ProjectReturns(i, ProjectImportState(ID, projects, projectMembers, issued),
                      "ImportState", "none", ID)

ValidateConfigCall(config) ==
    /\ typeName = ProjectMemberTypeName
    /\ diags' = ValidateConfig(config)
    /\ respState' = NoState
    /\ requests' = <<>>
    /\ sent' = <<>>
    /\ op' = Call("ValidateConfig", "member", "none", "none", 0, config)
    /\ UNCHANGED <<projects, projectMembers, issued, typeName, pstate, mstate, deleted, provider, inflight>>

\* Create is only ever called with the plan of a configuration that
\* ValidateConfig accepted.
ProjectMemberCreateCall(i, config, id, mode) ==
    /\ mstate[i] = NoState
    /\ issued < MaxUUIDs
    /\ Resolved(config)
    /\ ~HasError(ValidateConfig(config))
    /\ ProjectMemberReturns(i, ProjectMemberCreate([MemberPlan(config) EXCEPT !.Id = id], mode,
                                                   projects, projectMembers, issued),
                            "Create", mode, [MemberPlan(config) EXCEPT !.Id = id])

ProjectMemberReadCall(i, mode) ==
    /\ mstate[i] # NoState
    /\ ProjectMemberReturns(i, ProjectMemberRead(mstate[i], mode, projects, projectMembers, issued),
                            "Read", mode, Identity(mstate[i]))

ProjectMemberUpdateCall(i, config) ==
    /\ mstate[i] # NoState
    /\ ProjectMemberReturns(i, ProjectMemberUpdate(mstate[i], MemberPlan(config),
                                                   projects, projectMembers, issued),
                            "Update", "none", Empty)

ProjectMemberDeleteCall(i, mode) ==
    /\ mstate[i] # NoState
    /\ ProjectMemberReturns(i, ProjectMemberDelete(mstate[i], mode, projects, projectMembers, issued),
                            "Delete", mode, Identity(mstate[i]))

\* The caller stops tracking an instance whose Delete reported no error.
DropDeleted(i) ==
    /\ typeName = ProjectMemberTypeName
    /\ op.name = "Delete" /\ op.kind = "member" /\ op.inst = i
    /\ ~HasError(diags)
    /\ mstate[i] # NoState
    /\ mstate' = [mstate EXCEPT ![i] = NoState]
    /\ op' = Call("Drop", "member", i, "none", 0, Empty)
    /\ UNCHANGED <<projects, projectMembers, issued, typeName, pstate, deleted, respState, diags, requests,
                   sent, provider, inflight>>

ProjectMemberImportStateCall(i, ID, mode) ==
    /\ mstate[i] = NoState
    /\ ProjectMemberReturns(i, ProjectMemberImportState(ID, mode, projects, projectMembers, issued),
                            "ImportState", mode, ID)

\* Terraform validates a data source block against the schema.
ProjectDataSourceValidateCall(config) ==
    /\ typeName = ProjectDataSourceTypeName
    /\ diags' = ProjectDataSourceValidate(config)
    /\ respState' = NoState
    /\ requests' = <<>>
    /\ sent' = <<>>
    /\ op' = Call("ValidateDataSource", "datasource", "none", "none", 0, [config |-> config, list |-> <<>>])
    /\ UNCHANGED <<projects, projectMembers, issued, typeName, pstate, mstate, deleted, provider, inflight>>

\* Read is only ever called with a configuration the schema accepts.
ProjectDataSourceReadCall(config, mode, list) ==
    /\ typeName = ProjectDataSourceTypeName
    /\ ~HasError(ProjectDataSourceValidate(config))
    /\ mode = "listed" \/ list = <<>>
    /\ Returns(ProjectDataSourceRead(config,
                    DoList(ProjectDataSourceHTTPRequest, mode, list, projects, projectMembers, issued)))
    /\ op' = Call("DataSourceRead", "datasource", "none", mode,
                  DoList(ProjectDataSourceHTTPRequest, mode, list, projects, projectMembers, issued).status,
                  [config |-> config, list |-> list])
    /\ UNCHANGED <<typeName, pstate, mstate, deleted>>

\* The import identifiers the caller tries on the running system.
TriedImportIds ==
    {id \in ImportIds :
        id \in {<<"0faaecfb">>, <<"id-1">>, <<"0faaecfb", "?">>, <<"0faaecfb", "/", "id-1">>,
                <<"/", "id-1">>, <<"id-1", "/", "id-1">>}}

ProjectNext ==
    \/ \E i \in ProjectInstances, plan \in ProjectPlans, mode \in Modes : ProjectCreateCall(i, plan, mode)
    \/ \E i \in ProjectInstances, mode \in Modes : ProjectReadCall(i, mode)
    \/ \E i \in ProjectInstances, plan \in ProjectPlans : ProjectUpdateCall(i, plan)
    \/ \E i \in ProjectInstances : ProjectDeleteCall(i)
    \/ \E i \in ProjectInstances, plan \in ProjectPlans, mode \in Modes : ProjectReplaceCall(i, plan, mode)
    \/ \E i \in ProjectInstances, ID \in TriedImportIds : ProjectImportStateCall(i, ID)

MemberNext ==
    \/ \E config \in MemberConfigs : ValidateConfigCall(config)
    \/ \E i \in MemberInstances, config \in MemberConfigs, id \in PlannedIds, mode \in Modes :
            ProjectMemberCreateCall(i, config, id, mode)
    \/ \E i \in MemberInstances, mode \in Modes : ProjectMemberReadCall(i, mode)
    \/ \E i \in MemberInstances, config \in MemberConfigs : ProjectMemberUpdateCall(i, config)
    \/ \E i \in MemberInstances, mode \in Modes : ProjectMemberDeleteCall(i, mode)
    \/ \E i \in MemberInstances : DropDeleted(i)
    \/ \E i \in MemberInstances, ID \in TriedImportIds, mode \in Modes : ProjectMemberImportStateCall(i, ID, mode)

\* A handler call of instance i has built its request and the remote has
\* served it; the call now waits for the answer.
Begun(i, name, data, mode, httpReq, r) ==
    /\ typeName = ProjectMemberTypeName
    /\ inflight[i] = NoCall
    /\ projects' = r.projects
    /\ projectMembers' = r.projectMembers
    /\ issued' = r.issued
    /\ inflight' = [inflight EXCEPT ![i] = Frame(name, data, mode, httpReq, r,
                                                  projects, projectMembers, issued)]
    /\ op' = Call("Begin", "member", i, mode, 0, name)
    /\ UNCHANGED <<typeName, pstate, mstate, deleted, respState, diags, requests, sent, provider>>

MemberCreateBegin(i, config, mode) ==
    /\ mstate[i] = NoState
    /\ issued < MaxUUIDs
    /\ Resolved(config)
    /\ ~HasError(ValidateConfig(config))
    /\ Begun(i, "Create", MemberPlan(config), mode, ProjectMemberCreateHTTPRequest(MemberPlan(config)),
             Do(ProjectMemberCreateHTTPRequest(MemberPlan(config)), mode, projects, projectMembers, issued))

MemberReadBegin(i, mode) ==
    /\ mstate[i] # NoState
    /\ Begun(i, "Read", mstate[i], mode, Request("GET", ProjectMemberURL(mstate[i]), NoBody),
             Do(Request("GET", ProjectMemberURL(mstate[i]), NoBody), mode, projects, projectMembers, issued))

MemberDeleteBegin(i, mode) ==
    /\ mstate[i] # NoState
    /\ Begun(i, "Delete", mstate[i], mode, Request("DELETE", ProjectMemberURL(mstate[i]), NoBody),
             Do(Request("DELETE", ProjectMemberURL(mstate[i]), NoBody), mode, projects, projectMembers, issued))

\* The answer is there and the handler of instance i runs to its end; the
\* caller records resp.State, and stops tracking the instance after a Delete
\* that reported no error.
Ended(i, f, resp) ==
    /\ typeName = ProjectMemberTypeName
    /\ mstate' = [mstate EXCEPT ![i] = IF f.name = "Delete" /\ ~HasError(resp.Diagnostics)
                                       THEN NoState ELSE resp.State]
    /\ respState' = resp.State
    /\ diags' = resp.Diagnostics
    /\ requests' = resp.Requests
    /\ sent' = Sent(provider.client, resp.Requests)
    /\ inflight' = [inflight EXCEPT ![i] = NoCall]
    /\ op' = Call(f.name, "member", i, f.mode, f.r.status, f.data)
    /\ UNCHANGED <<projects, projectMembers, issued, typeName, pstate, deleted, provider>>

MemberCallEnd(i) ==
    /\ inflight[i] # NoCall
    /\ Ended(i, OwnFrame(i, inflight), FrameAnswered(OwnFrame(i, inflight)))

\* The configurations and exchanges tried with two instances at a time:
\* members of the seeded project, and exchanges that are served, never reach
\* the remote, or lose the answer.
ConcurrentConfigs == {config \in MemberConfigs : config.ProjectId = StringValue(SeedProjectId)}
ConcurrentModes == {"served", "refused", "lost"}

ConcurrentNext ==
    \/ \E i \in ConcurrentInstances, config \in ConcurrentConfigs, mode \in ConcurrentModes :
            MemberCreateBegin(i, config, mode)
    \/ \E i \in ConcurrentInstances, mode \in ConcurrentModes : MemberReadBegin(i, mode)
    \/ \E i \in ConcurrentInstances, mode \in ConcurrentModes : MemberDeleteBegin(i, mode)
    \/ \E i \in ConcurrentInstances : MemberCallEnd(i)

DataSourceNext ==
    \/ \E config \in ProjectDataSourceConfigs : ProjectDataSourceValidateCall(config)
    \/ \E config \in ProjectDataSourceConfigs, mode \in ListModes, list \in Lists :
            ProjectDataSourceReadCall(config, mode, list)

ImportNext ==
    \E i \in MemberInstances, ID \in ImportIds, mode \in Modes : ProjectMemberImportStateCall(i, ID, mode)

\* One run reconciles the instances of one resource type (typeName): the two
\* resources share nothing but the remote, where a member request only looks
\* up whether its project exists.
Next == ProjectNext \/ MemberNext \/ DataSourceNext

Spec == Init /\ [][Next]_vars

\* terraform import of a member, tried with every identifier, by a provider
\* configured with a key in its block.
ImportInit ==
    /\ Init
    /\ typeName = ProjectMemberTypeName
    /\ provider.config = [ApiKey |-> StringValue(<<"key-1">>)]
    /\ provider.env = Empty

SpecImport == ImportInit /\ [][ImportNext]_vars

\* Two member instances reconciled at the same time: a call of one may send
\* its request and wait while a call of the other sends, waits and ends. The
\* remote serves each request in one step.
ConcurrentInit ==
    /\ Init
    /\ typeName = ProjectMemberTypeName
    /\ provider.config = [ApiKey |-> StringValue(<<"key-1">>)]
    /\ provider.env = Empty

SpecConcurrent == ConcurrentInit /\ [][ConcurrentNext]_vars

-----------------------------------------------------------------------------
(* Properties *)

\* The recorded state of the instance the last call was about.
StateOf ==
    IF op.kind = "project" THEN pstate[op.inst]
    ELSE IF op.kind = "member" /\ op.inst \in MemberInstances THEN mstate[op.inst]
    ELSE NoState

\* The diagnostic the provider gives for an operation the remote API lacks.
Unsupported(ds) ==
    \E i \in 1..Len(ds) :
        /\ ds[i].summary = "API Error"
        /\ ds[i].detail.msg \in
              {"Unable to update project, method is not implemented on server",
               "Unable to delete project, method is not implemented on server",
               "Unable to update project member, method is not implemented on server"}

\* C1: a Read of either kind that receives 404, and a member ImportState whose
\* lookup receives 404, reports no error and leaves no state for the instance:
\* neither in resp.State nor in what is recorded.
C1_NotFoundIsAbsent ==
    (/\ op.name = "Read" \/ (op.name = "ImportState" /\ op.kind = "member")
     /\ op.status = 404)
        => /\ ~HasError(diags)
           /\ respState = NoState
           /\ StateOf = NoState

\* A member Read has received 404 (the member was deleted under it).
C1_Witness ==
    /\ op.name = "Read" /\ op.kind = "member" /\ op.status = 404
    /\ Len(requests) = 1 /\ requests[1].method = "GET"

C4_ExclusiveIdentifyingInput ==
    /\ op.name = "ValidateConfig" =>
          /\ requests = <<>>
          /\ HasSummary(diags, "Configuration Error")
                <=> (IsNull(op.input.UserId) <=> IsNull(op.input.EMail))
          /\ HasError(diags) <=> HasSummary(diags, "Configuration Error")
    /\ (op.name = "Create" /\ op.kind = "member") =>
          (IsKnown(op.input.UserId) <=> ~IsKnown(op.input.EMail))

\* A configuration with both user_id and email was validated and rejected.
C4_Witness ==
    /\ op.name = "ValidateConfig"
    /\ IsKnown(op.input.UserId) /\ IsKnown(op.input.EMail)
    /\ HasSummary(diags, "Configuration Error")

\* An import identifier of exactly two "/"-separated segments, neither empty.
WellFormedImportId(ID) ==
    /\ Len(Split(ID)) = 2
    /\ Split(ID)[1] # Empty
    /\ Split(ID)[2] # Empty

\* C5: a member ImportState rejects every identifier that is not two
\* non-empty "/"-separated segments with the import-identifier error and
\* without sending a request, and rejects no identifier of that shape.
C5_MalformedImportIdRejected ==
    (op.name = "ImportState" /\ op.kind = "member") =>
        IF WellFormedImportId(op.input)
        THEN ~HasSummary(diags, "Unexpected Import Identifier")
        ELSE HasSummary(diags, "Unexpected Import Identifier") /\ requests = <<>>

\* C6: a member ImportState of a well-formed identifier P/M sends one GET to
\* /api/v1/projects/P/members/M and leaves what Read leaves for the identity
\* {project_id: P, id: M} against the same remote: the same state (every
\* attribute from the response when it is 200) and the same diagnostics.
C6_ImportReadsParsedIdentity ==
    (op.name = "ImportState" /\ op.kind = "member" /\ WellFormedImportId(op.input)) =>
        /\ Len(requests) = 1
        /\ requests[1].method = "GET"
        /\ requests[1].path = ProjectMemberURL(ImportedIdentity(Split(op.input)[1], Split(op.input)[2]))
        /\ respState = ProjectMemberRead(ImportedIdentity(Split(op.input)[1], Split(op.input)[2]),
                                         op.mode, projects, projectMembers, issued).State
        /\ diags = ProjectMemberRead(ImportedIdentity(Split(op.input)[1], Split(op.input)[2]),
                                     op.mode, projects, projectMembers, issued).Diagnostics

\* C7: a member Delete that receives 404 reports no error.
C7_DeleteIdempotent ==
    (op.name = "Delete" /\ op.kind = "member" /\ op.status = 404) => ~HasError(diags)

C9_InputsEchoed ==
    (op.name = "Create" /\ ~HasError(diags)) =>
        IF op.kind = "project"
        THEN /\ pstate[op.inst].Name = op.input.Name
             /\ pstate[op.inst].Description = op.input.Description
        ELSE mstate[op.inst].ProjectId = op.input.ProjectId

\* C10: after a member Create that reported no error, user_id and email are
\* the planned values where the plan knew them, and user_id, email and
\* display_name are all known.
C10_InputComputedRetained ==
    (op.name = "Create" /\ op.kind = "member" /\ ~HasError(diags)) =>
        /\ IsKnown(op.input.UserId) => mstate[op.inst].UserId = op.input.UserId
        /\ IsKnown(op.input.EMail) => mstate[op.inst].EMail = op.input.EMail
        /\ IsKnown(mstate[op.inst].UserId)
        /\ IsKnown(mstate[op.inst].EMail)
        /\ IsKnown(mstate[op.inst].DisplayName)

\* The objects the remote holds of the kind the last call was about.
RemoteOf == IF op.kind = "project" THEN projects ELSE projectMembers

\* C11: a Create sends none of the plan's Computed attributes (its request
\* carries only name and description, or user_id and email), and after a
\* Create that reported no error the recorded id is the id the remote assigned
\* to the new object, whatever id the plan carried.
C11_ComputedIgnoredOnCreate ==
    op.name = "Create" =>
        /\ Len(requests) = 1
        /\ DOMAIN requests[1].body \subseteq
              (IF op.kind = "project" THEN {"name", "description"} ELSE {"user_id", "email"})
        /\ ~HasError(diags) =>
              /\ StateOf.Id = StringValue(UUIDHyphenated(issued))
              /\ UUIDHyphenated(issued) \in DOMAIN RemoteOf
              /\ IsKnown(op.input.Id) => StateOf.Id # op.input.Id

\* A Create whose plan carried an id of its own succeeded.
C11_Witness ==
    /\ op.name = "Create" /\ ~HasError(diags)
    /\ op.kind = "project"
    /\ IsKnown(op.input.Id)

\* C12: a project planned with name "Test Project" and no description, created
\* on a remote that stores it as sent, assigns id, organisation and timestamps
\* and answers without a description, is recorded with that name, the
\* remote's id, organisation_id and timestamps, archived = false, and a null
\* description.
C12_CreateWithoutDescription ==
    (/\ op.name = "Create" /\ op.kind = "project" /\ op.mode = "served"
     /\ ~HasError(diags)
     /\ IsNull(op.input.Description))
        => /\ pstate[op.inst].Name = StringValue(<<"Test Project">>)
           /\ pstate[op.inst].Id = StringValue(UUIDHyphenated(issued))
           /\ pstate[op.inst].OrganisationId = StringValue(orgId)
           /\ pstate[op.inst].Archived = BoolValue(FALSE)
           /\ pstate[op.inst].CreatedAt = StringValue(Now)
           /\ pstate[op.inst].UpdatedAt = StringValue(Now)
           /\ pstate[op.inst].Description = Null

\* C13: a Create of either kind reports no error only when the answer was 201
\* with a body that parses, and then records an object; an answer with another
\* status gives one diagnostic with that status and the body as received, a
\* transport failure or an unparseable body gives an error too, and whenever
\* Create reports an error nothing is written: resp.State and the recorded
\* state of the instance stay empty.
C13_CreateFailureWritesNothing ==
    op.name = "Create" =>
        /\ ~HasError(diags) <=>
              (op.status = 201 /\ op.mode \in {"served", "normalised"})
        /\ ~HasError(diags) => (respState # NoState /\ StateOf = respState)
        /\ HasError(diags) => (respState = NoState /\ StateOf = NoState)
        /\ (op.mode \notin {"refused", "lost"} /\ op.status # 201) =>
              diags = <<StatusDiag(op.status,
                                   Do(requests[1], op.mode, projects, projectMembers, issued).body)>>
        /\ op.mode \in {"refused", "lost"} =>
              (Len(diags) = 1 /\ diags[1].summary = "Client Error"
               /\ "status" \notin DOMAIN diags[1].detail)
        /\ (op.mode = "mangled" /\ op.status = 201) =>
              diags = <<ErrDiag("Unable to parse response")>>

\* A member Create was answered 404 (its project does not exist).
C13_Witness ==
    /\ op.name = "Create" /\ op.kind = "member"
    /\ op.status = 404 /\ HasError(diags)
    /\ diags[1].detail.body = Text(<<"Project not found">>)

\* What the remote reports of a stored project, attribute by attribute (a
\* description it does not hold reads as the empty string).
RemoteProjectAttributes(p) ==
    [Id |-> StringValue(p.Id),
     Name |-> StringValue(p.Name),
     Description |-> StringValue(IF p.Description.nil THEN Empty ELSE p.Description.s),
     OrganisationId |-> StringValue(p.OrganisationId),
     Archived |-> BoolValue(p.Archived),
     ArchivedAt |-> StringValue(p.ArchivedAt),
     CreatedAt |-> StringValue(p.CreatedAt),
     UpdatedAt |-> StringValue(p.UpdatedAt)]

\* What the remote reports of a stored member.
RemoteMemberAttributes(m) ==
    [Id |-> StringValue(m.Id),
     ProjectId |-> StringValue(m.ProjectId),
     UserId |-> StringValue(m.UserId),
     EMail |-> StringValue(m.EMail),
     DisplayName |-> StringValue(m.DisplayName)]

\* C14: after a Read of either kind that reported no error on a 200 answer,
\* the recorded object is exactly what the remote reports of the object with
\* that id, attribute by attribute: nothing in it comes from the state the
\* Read started with.
C14_ReadRebuildsFromRemote ==
    (op.name = "Read" /\ ~HasError(diags) /\ op.status = 200) =>
        /\ respState = StateOf
        /\ ValueString(StateOf.Id) \in DOMAIN RemoteOf
        /\ StateOf = IF op.kind = "project"
                     THEN RemoteProjectAttributes(projects[ValueString(StateOf.Id)])
                     ELSE RemoteMemberAttributes(projectMembers[ValueString(StateOf.Id)])

\* An imported project, recorded with nothing but its id, was read.
C14_Witness ==
    /\ op.name = "Read" /\ op.kind = "project"
    /\ ~HasError(diags) /\ op.status = 200
    /\ pstate[op.inst].Id = StringValue(SeedProjectId)
    /\ pstate[op.inst].Name = StringValue(<<"test1">>)

\* C15: a Read of either kind that meets a transport error, an answer with a
\* status other than 200 and 404, or a 200 answer whose body does not parse
\* reports an error (for the status case one diagnostic with the status and
\* the body as received) and changes no recorded state: the instance stays
\* tracked with the attribute values it had.
C15_FailedReadKeepsState ==
    [][(/\ op'.name = "Read"
        /\ \/ op'.mode \in {"refused", "lost"}
           \/ op'.status \notin {200, 404}
           \/ op'.mode = "mangled" /\ op'.status = 200) =>
          /\ HasError(diags')
          /\ pstate' = pstate /\ mstate' = mstate
          /\ StateOf' # NoState
          /\ respState' = StateOf'
          /\ (op'.mode \notin {"refused", "lost"} /\ op'.status \notin {200, 404}) =>
                diags' = <<StatusDiag(op'.status,
                                      Do(requests'[1], op'.mode, projects', projectMembers', issued').body)>>]_vars

\* A Read of a tracked project was answered 401.
C15_Witness ==
    /\ op.name = "Read" /\ op.kind = "project"
    /\ op.status = 401 /\ HasError(diags)
    /\ pstate[op.inst] # NoState

\* The attributes the schema marks Computed, of a recorded object.
ComputedOf(kind, st) ==
    IF kind = "project"
    THEN <<st.Id, st.OrganisationId, st.Archived, st.ArchivedAt, st.CreatedAt, st.UpdatedAt>>
    ELSE <<st.Id, st.UserId, st.EMail, st.DisplayName>>

\* C16: a Read that follows directly on a Create that reported no error, and
\* is answered by the remote, finds the object (200, no error) and records the
\* same value as Create did for every Computed attribute; a Read that follows
\* directly on such a Read records the same object again.
C16_ReadAfterCreateIdempotent ==
    [][(/\ op'.name = "Read" /\ op'.mode \in {"served", "normalised"}
        /\ op.name \in {"Create", "Read"} /\ op.kind = op'.kind /\ op.inst = op'.inst
        /\ ~HasError(diags) /\ StateOf # NoState) =>
          /\ op'.status = 200 /\ ~HasError(diags')
          /\ StateOf' # NoState
          /\ ComputedOf(op'.kind, StateOf') = ComputedOf(op.kind, StateOf)
          /\ op.name = "Read" => StateOf' = StateOf]_vars

\* A created member was read back.
C16_Witness ==
    /\ op.name = "Read" /\ op.kind = "member"
    /\ op.status = 200 /\ ~HasError(diags)
    /\ mstate[op.inst].Id = StringValue(UUIDHyphenated(1))
    /\ mstate[op.inst].DisplayName = StringValue(FakerName)

\* C17: while an instance stays tracked, no Read, Update or Delete changes its
\* recorded id: the id is the one Create or ImportState recorded.
C17_IdNeverChanges ==
    [][op'.name \in {"Read", "Update", "Delete"} =>
          /\ \A i \in ProjectInstances :
                (pstate[i] # NoState /\ pstate'[i] # NoState) => pstate'[i].Id = pstate[i].Id
          /\ \A i \in MemberInstances :
                (mstate[i] # NoState /\ mstate'[i] # NoState) => mstate'[i].Id = mstate[i].Id]_vars

\* The calls that reach the remote: Create and Read of either kind, Delete of
\* a member, and ImportState of a member once the identifier has been accepted.
Outbound ==
    \/ op.name \in {"Create", "Read"}
    \/ op.name = "Delete" /\ op.kind = "member"
    \/ op.name = "ImportState" /\ op.kind = "member" /\ ImportIdAccepted(Split(op.input))

FullyPopulated(st) == st # NoState /\ \A a \in DOMAIN st : IsKnown(st[a])

\* C19: a member ImportState ends either with no error and resp.State fully
\* populated (or empty, when the member does not exist), or with an error and
\* nothing in resp.State: an import that fails after the identifier was
\* parsed leaves no attribute set.
C19_NoPartialImportState ==
    (op.name = "ImportState" /\ op.kind = "member") =>
        IF HasError(diags)
        THEN respState = NoState
        ELSE respState = NoState \/ FullyPopulated(respState)

\* An API key is configured: in the provider block or in the environment.
ApiKeyConfigured == provider.env # Empty \/ ~IsNull(provider.config.ApiKey)

\* C20: with an API key configured, every request a call sends is the request
\* the handler built plus the header Authorization: Bearer <key>, the key
\* being the configured one; with none configured, every request is sent as
\* built, without an Authorization header.
C20_BearerHeader ==
    /\ Len(sent) = Len(requests)
    /\ \A k \in 1..Len(sent) :
          /\ sent[k].request = requests[k]
          /\ IF ApiKeyConfigured
             THEN /\ IsKnown(EffectiveApiKey(provider.config, provider.env))
                  /\ sent[k].Authorization =
                        HeaderSet(<<"Bearer ">> \o EffectiveApiKey(provider.config, provider.env).v)
             ELSE sent[k].Authorization = NoHeader

\* C21: a data source configured with id = X, X a project of the remote,
\* is read without error and its state carries id X and X's name.
C21_LookupById ==
    (/\ op.kind = "datasource"
     /\ IsKnown(op.input.config.Id)
     /\ op.input.config.Id.v \in DOMAIN projects)
    => /\ ~HasError(diags)
       /\ respState # NoState
       /\ respState.Id = op.input.config.Id
       /\ respState.Name = StringValue(projects[op.input.config.Id.v].Name)

\* The first document of a list that carries the name, as a set of at most
\* one index.
FirstNamed(list, name) ==
    {k \in 1..Len(list) : list[k]["name"] = name /\ \A j \in 1..(k-1) : list[j]["name"] # name}

C22_FullCRUD ==
    (op.kind = "project" /\ op.name \in {"Update", "Delete"})
    => /\ Len(requests) = 1
       /\ requests[1].method = (IF op.name = "Update" THEN "PUT" ELSE "DELETE")
       /\ requests[1].path = <<"/api/v1/projects/">> \o ValueString(pstate["a"].Id)
       /\ ~HasError(diags)

\* C23: applying a configuration that adds a description to a tracked project
\* reports no error and leaves a tracked project with an id, the configured
\* name and the configured description.
C23_DescriptionAdded ==
    (op.kind = "project" /\ op.name = "Replace" /\ IsKnown(op.input.Description))
    => /\ ~HasError(diags)
       /\ pstate[op.inst] # NoState
       /\ ~IsNull(pstate[op.inst].Id)
       /\ pstate[op.inst].Name = op.input.Name
       /\ pstate[op.inst].Description = op.input.Description

\* What Create records for project X of the remote when it is answered with
\* X's document, for a given plan.
CreatedAs(plan, X) ==
    ProjectCreateModel(plan, UnmarshalProject(EncodeProject(projects[X])))

\* C24: ImportState of a project records the whole import string as id; and when
\* the string is the id of a project of the remote, the Read that follows
\* it, answered 200, records the very object that a Read records after
\* a Create of that project, whatever the plan was.
C24_ProjectImportRoundTrip ==
    [][(op.kind = "project" /\ op.name = "ImportState")
       => /\ pstate[op.inst].Id = StringValue(op.input)
          /\ (/\ op.input \in DOMAIN projects
              /\ op'.name = "Read" /\ op'.status = 200 /\ ~HasError(diags'))
             => \A plan \in ProjectPlans :
                   pstate'[op.inst] =
                     ProjectRead(CreatedAs(plan, op.input), op'.mode,
                                 projects, projectMembers, issued).State]_vars

\* The seeded project, which only an import can bring under management, was
\* read with a 200 answer and is recorded with all its attributes.
C24_Witness ==
    /\ op.kind = "project" /\ op.name = "Read" /\ op.status = 200 /\ ~HasError(diags)
    /\ pstate[op.inst] = RemoteProjectAttributes(projects[SeedProjectId])
    /\ pstate[op.inst].Description = StringValue(Empty)

ProjectBody(plan, supplied(_)) ==
    IF supplied(plan.Description)
    THEN [name |-> plan.Name.v, description |-> plan.Description.v]
    ELSE [name |-> plan.Name.v]
MemberBody(plan, supplied(_)) ==
    IF supplied(plan.UserId) THEN [f \in {"user_id"} |-> plan.UserId.v]
    ELSE IF supplied(plan.EMail) THEN [f \in {"email"} |-> plan.EMail.v]
    ELSE [f \in {} |-> Empty]
NonEmpty(x) == IsKnown(x) /\ x.v # Empty

\* C26 as stated: the body of a Create request has exactly the user-settable
\* attributes whose planned value is known, with that value: name and, when
\* known, description for a project; user_id alone when it is known, else
\* email alone when it is known, for a member.
C26_BodyHasKnown ==
    op.name = "Create"
    => /\ Len(requests) = 1
       /\ requests[1].body = IF op.kind = "project"
                             THEN ProjectBody(op.input, IsKnown)
                             ELSE MemberBody(op.input, IsKnown)

\* C26 amended: the body of a Create request has exactly the user-settable
\* attributes whose planned value is known and not the empty string, with that
\* value; an attribute planned as "" is left out like a null or unknown one.
C26_BodyHasKnownNonEmpty ==
    op.name = "Create"
    => /\ Len(requests) = 1
       /\ requests[1].body = IF op.kind = "project"
                             THEN ProjectBody(op.input, NonEmpty)
                             ELSE MemberBody(op.input, NonEmpty)

\* A project planned with description = "" was created: the body carries name only.
C26_Witness ==
    /\ op.name = "Create" /\ op.kind = "project"
    /\ op.input.Description = StringValue(Empty)
    /\ DOMAIN requests[1].body = {"name"}

\* Prior objects that agree with a recorded one on its identity and carry
\* something else in every other attribute.
OtherValues == {Null, StringValue(<<"other">>)}
AltProjects(prior) ==
    {[Id |-> prior.Id, Name |-> v, Description |-> v, OrganisationId |-> v, Archived |-> v,
      ArchivedAt |-> v, CreatedAt |-> v, UpdatedAt |-> v] : v \in OtherValues}
AltMembers(prior) ==
    {[Id |-> prior.Id, ProjectId |-> prior.ProjectId, UserId |-> v, EMail |-> v,
      DisplayName |-> v] : v \in OtherValues}

\* What a Read of the tracked instance would have left had the recorded
\* object been alt: the step's Read run again on alt against the same remote.
ReadOf(kind, alt, mode) ==
    IF kind = "project"
    THEN ProjectRead(alt, mode, projects, projectMembers, issued)
    ELSE ProjectMemberRead(alt, mode, projects, projectMembers, issued)
AltsOf(kind, i) == IF kind = "project" THEN AltProjects(pstate[i]) ELSE AltMembers(mstate[i])

\* C27 as stated: a Read sends the same request, reports the same diagnostics
\* and leaves the same object for every prior object with the same identity.
C27_ReadDependsOnIdentityOnly ==
    [][op'.name = "Read"
       => \A alt \in AltsOf(op'.kind, op'.inst) :
             /\ ReadOf(op'.kind, alt, op'.mode).Requests = requests'
             /\ ReadOf(op'.kind, alt, op'.mode).Diagnostics = diags'
             /\ ReadOf(op'.kind, alt, op'.mode).State = respState']_vars

\* C27 amended: a Read sends the same request and reports the same diagnostics
\* for every prior object with the same identity; when it reports no error it
\* leaves the same object for all of them, and when it reports an error it
\* leaves each prior object as it was.
C27_ReadOutcomeDependsOnIdentityOnly ==
    [][op'.name = "Read"
       => \A alt \in AltsOf(op'.kind, op'.inst) :
             /\ ReadOf(op'.kind, alt, op'.mode).Requests = requests'
             /\ ReadOf(op'.kind, alt, op'.mode).Diagnostics = diags'
             /\ IF HasError(diags')
                THEN ReadOf(op'.kind, alt, op'.mode).State = alt
                ELSE ReadOf(op'.kind, alt, op'.mode).State = respState']_vars

\* A Read of a member recorded with all its attributes reported an error and
\* left it recorded as it was.
C27_Witness ==
    /\ op.name = "Read" /\ op.kind = "member"
    /\ HasError(diags)
    /\ mstate[op.inst] # NoState /\ respState = mstate[op.inst]
    /\ IsKnown(mstate[op.inst].EMail) /\ IsKnown(mstate[op.inst].DisplayName)

Serial(f) ==
    CASE f.name = "Create" ->
            ProjectMemberCreate(f.data, f.mode, f.before.projects, f.before.projectMembers, f.before.issued)
      [] f.name = "Read" ->
            ProjectMemberRead(f.data, f.mode, f.before.projects, f.before.projectMembers, f.before.issued)
      [] f.name = "Delete" ->
            ProjectMemberDelete(f.data, f.mode, f.before.projects, f.before.projectMembers, f.before.issued)

\* The member a frame's request is about: the one its URL names, or the one a
\* Create makes.
OwnMember(f, M) ==
    IF f.name = "Create" THEN {id \in DOMAIN M : id \notin DOMAIN f.before.projectMembers}
    ELSE {ValueString(f.data.Id)}

====
